---- MODULE Spec2Model ----
(***************************************************************************)
(* Lazy agent initialisation, streaming invocation and shutdown of         *)
(* agentcore/my_agent.py.                                                  *)
(*                                                                         *)
(* invoke is an async generator: the host's event loop runs one request    *)
(* at a time and switches requests only where a request suspends (the      *)
(* `async for` over the agent stream and the `yield` of an event).         *)
(* initialize_agent is a plain synchronous function, so the loop is held   *)
(* from its first line to the first suspension of the request.             *)
(***************************************************************************)
EXTENDS Integers, Sequences, FiniteSets, TLC

\* ---------------------------------------------------------------- bounds
NumRequests == 2
\* units one request's stream produces when several requests interleave
MaxGenLen == 1
\* units the stream produces when a single request is followed
StreamLen == 4
\* executions of the finally block when the block is run again
MaxHookRuns == 2

Requests == 1..NumRequests

\* ------------------------------------------------------------- constants
\* default of payload.get("prompt", ...)
FALLBACK_PROMPT == "No prompt found in input, please guide customer to create a json payload with prompt key"

None == 0
NoPrompt == "<unset>"
NoPayload == [k \in {"unset"} |-> "unset"]

\* inbound payloads: {}, {"prompt": "hi"}, {"prompt": ""}
Payloads == { [k \in {} |-> ""], [prompt |-> "hi"], [prompt |-> ""] }

\* the payload used when several requests interleave
PromptPayloads == { [prompt |-> "hi"] }

\* units the agent's stream can produce
Units == { [x |-> "1"], [event |-> "a"], [event |-> "b"], [y |-> "2"] }
\* the units used when several requests interleave
SomeUnits == { [x |-> "1"], [event |-> "a"] }

\* positions of a request in invoke / initialize_agent
InInit == {"connect", "list", "construct"}
Terminal == {"done", "init_failed", "gen_failed", "abandoned"}

VARIABLES
    agent,                \* global agent: None or the identity of the Agent
    mcp_context_manager,  \* global mcp_context_manager: None or the value of __enter__
    handle,               \* stdio_mcp_client: "Disconnected" or "Connected"
    running,              \* request holding the event loop, 0 when the loop is free
    phase,                \* "serving" (inside app.run), "finally", "exited"
    runOutcome,           \* how app.run ended: "none", "returned", "raised"
    hookRuns,             \* executions of the finally block
    pc,                   \* per request: position
    payload,              \* per request: the payload passed to invoke
    current_agent,        \* per request: local current_agent
    user_prompt,          \* per request: local user_prompt
    streamArg,            \* per request: argument given to stream_async
    genCalls,             \* per request: calls of stream_async
    produced,             \* per request: units the agent stream has produced
    out,                  \* per request: units yielded to the caller
    connectCalls,         \* calls of stdio_mcp_client.__enter__
    connectsWhileOpen,    \* calls of __enter__ made while the handle was Connected
    listCalls,            \* calls of stdio_mcp_client.list_tools_sync
    agentsConstructed,    \* Agent(...) constructions
    exitCalls,            \* calls of stdio_mcp_client.__exit__
    failedAttempts,       \* construction attempts that raised
    firstTime,            \* per request: agent was None when invoke was called
    awaitedFail           \* per request: was pending while an attempt failed

vars == << agent, mcp_context_manager, handle, running, phase, runOutcome, hookRuns,
           pc, payload, current_agent, user_prompt, streamArg, genCalls, produced, out,
           connectCalls, connectsWhileOpen, listCalls, agentsConstructed, exitCalls,
           failedAttempts, firstTime, awaitedFail >>

globalVars == << agent, mcp_context_manager, handle >>
counterVars == << connectCalls, connectsWhileOpen, listCalls, agentsConstructed,
                  exitCalls, failedAttempts >>
streamVars == << user_prompt, streamArg, genCalls, produced, out >>
mainVars == << phase, runOutcome, hookRuns >>

\* ------------------------------------------------------------ helpers
\* variant: `payload.get(key) or default`
Get_orDefault(d, key, default) ==
    IF key \in DOMAIN d /\ d[key] /= "" THEN d[key] ELSE default

\* dict.get(key, default)
Get(d, key, default) == IF key \in DOMAIN d THEN d[key] ELSE default

\* variant: every unit is yielded
HasEvent_any(u) == TRUE

\* `"event" in event`
HasEvent(u) == "event" \in DOMAIN u

\* variant: the construction runs on every call
NeedsConstruction_always(a) == TRUE

\* variant: a failed attempt is remembered and never retried
NeedsConstruction_poisoned(a) == a = None /\ failedAttempts = 0

\* `if agent is None`
NeedsConstruction(a) == a = None

\* variant: the connect is awaited, so the request suspends after it
ReleasesLoop_awaitConnect(p) == p \in {"stream", "list"} \cup Terminal

\* positions after which the request gives the event loop back
ReleasesLoop(p) == p \in {"stream"} \cup Terminal

\* variant: requests are still resumed after app.run has ended
Scheduled_afterRun(r) == running \in {0, r}

\* a request may execute when the loop is free or it already holds it
Scheduled(r) == phase = "serving" /\ running \in {0, r}

Hold(r, p) == IF ReleasesLoop(p) THEN 0 ELSE r

Init ==
    /\ agent = None
    /\ mcp_context_manager = None
    /\ handle = "Disconnected"
    /\ running = 0
    /\ phase = "serving"
    /\ runOutcome = "none"
    /\ hookRuns = 0
    /\ pc = [r \in Requests |-> "new"]
    /\ payload = [r \in Requests |-> NoPayload]
    /\ current_agent = [r \in Requests |-> None]
    /\ user_prompt = [r \in Requests |-> NoPrompt]
    /\ streamArg = [r \in Requests |-> NoPrompt]
    /\ genCalls = [r \in Requests |-> 0]
    /\ produced = [r \in Requests |-> << >>]
    /\ out = [r \in Requests |-> << >>]
    /\ connectCalls = 0
    /\ connectsWhileOpen = 0
    /\ listCalls = 0
    /\ agentsConstructed = 0
    /\ exitCalls = 0
    /\ failedAttempts = 0
    /\ firstTime = [r \in Requests |-> FALSE]
    /\ awaitedFail = [r \in Requests |-> FALSE]

\* ------------------------------------------------------------ requests
\* the host calls invoke(payload): the generator object exists, its body has not run
Arrive(r, p) ==
    /\ phase = "serving" /\ running = 0
    /\ pc[r] = "new"
    /\ pc' = [pc EXCEPT ![r] = "pending"]
    /\ payload' = [payload EXCEPT ![r] = p]
    /\ firstTime' = [firstTime EXCEPT ![r] = (agent = None)]
    /\ UNCHANGED << globalVars, running, mainVars, current_agent, streamVars,
                    counterVars, awaitedFail >>

\* initialize_agent, line 28: agent already there, return it
InitReuse(r) ==
    /\ Scheduled(r) /\ running = 0
    /\ pc[r] = "pending"
    /\ ~NeedsConstruction(agent)
    /\ current_agent' = [current_agent EXCEPT ![r] = agent]
    /\ pc' = [pc EXCEPT ![r] = "prompt"]
    /\ running' = Hold(r, "prompt")
    /\ UNCHANGED << globalVars, mainVars, payload, streamVars, counterVars,
                    firstTime, awaitedFail >>

\* initialize_agent, line 28: agent is None, enter the construction
InitBegin(r) ==
    /\ Scheduled(r) /\ running = 0
    /\ pc[r] = "pending"
    /\ NeedsConstruction(agent)
    /\ pc' = [pc EXCEPT ![r] = "connect"]
    /\ running' = Hold(r, "connect")
    /\ UNCHANGED << globalVars, mainVars, payload, current_agent, streamVars,
                    counterVars, firstTime, awaitedFail >>

\* variant: the exception is caught in invoke and the request goes on
RaiseInit_swallowed(r) ==
    /\ pc' = [pc EXCEPT ![r] = "prompt"]
    /\ running' = Hold(r, "prompt")
    /\ failedAttempts' = failedAttempts + 1
    /\ awaitedFail' = [q \in Requests |-> awaitedFail[q] \/ pc[q] = "pending"]

\* the construction attempt of r raises: the exception leaves invoke
RaiseInit(r) ==
    /\ pc' = [pc EXCEPT ![r] = "init_failed"]
    /\ running' = Hold(r, "init_failed")
    /\ failedAttempts' = failedAttempts + 1
    /\ awaitedFail' = [q \in Requests |-> awaitedFail[q] \/ pc[q] = "pending"]

\* variant: the value of __enter__ is not kept in mcp_context_manager
ConnectOk_notKept(r) ==
    /\ Scheduled(r)
    /\ pc[r] = "connect"
    /\ connectCalls' = connectCalls + 1
    /\ connectsWhileOpen' = connectsWhileOpen + (IF handle = "Connected" THEN 1 ELSE 0)
    /\ handle' = "Connected"
    /\ pc' = [pc EXCEPT ![r] = "list"]
    /\ running' = Hold(r, "list")
    /\ UNCHANGED << agent, mcp_context_manager, mainVars, payload, current_agent,
                    streamVars, listCalls, agentsConstructed, exitCalls,
                    failedAttempts, firstTime, awaitedFail >>

\* variant: the Agent is created and stored right after the connect
ConnectOk_storesAgent(r) ==
    /\ Scheduled(r)
    /\ pc[r] = "connect"
    /\ connectCalls' = connectCalls + 1
    /\ connectsWhileOpen' = connectsWhileOpen + (IF handle = "Connected" THEN 1 ELSE 0)
    /\ handle' = "Connected"
    /\ mcp_context_manager' = 1
    /\ agent' = agentsConstructed + 1
    /\ pc' = [pc EXCEPT ![r] = "list"]
    /\ running' = Hold(r, "list")
    /\ UNCHANGED << mainVars, payload, current_agent, streamVars, listCalls,
                    agentsConstructed, exitCalls, failedAttempts, firstTime, awaitedFail >>

\* line 30: mcp_context_manager = stdio_mcp_client.__enter__() returns
ConnectOk(r) ==
    /\ Scheduled(r)
    /\ pc[r] = "connect"
    /\ connectCalls' = connectCalls + 1
    /\ connectsWhileOpen' = connectsWhileOpen + (IF handle = "Connected" THEN 1 ELSE 0)
    /\ handle' = "Connected"
    /\ mcp_context_manager' = 1
    /\ pc' = [pc EXCEPT ![r] = "list"]
    /\ running' = Hold(r, "list")
    /\ UNCHANGED << agent, mainVars, payload, current_agent, streamVars, listCalls,
                    agentsConstructed, exitCalls, failedAttempts, firstTime, awaitedFail >>

\* variant: a failed connect is tried again inside the same call
ConnectFail_retry(r) ==
    /\ Scheduled(r)
    /\ pc[r] = "connect"
    /\ connectCalls <= NumRequests
    /\ connectCalls' = connectCalls + 1
    /\ connectsWhileOpen' = connectsWhileOpen + (IF handle = "Connected" THEN 1 ELSE 0)
    /\ running' = r
    /\ UNCHANGED << globalVars, mainVars, pc, payload, current_agent, streamVars,
                    listCalls, agentsConstructed, exitCalls, failedAttempts,
                    firstTime, awaitedFail >>

\* line 30: stdio_mcp_client.__enter__() raises, nothing is assigned
ConnectFail(r) ==
    /\ Scheduled(r)
    /\ pc[r] = "connect"
    /\ connectCalls' = connectCalls + 1
    /\ connectsWhileOpen' = connectsWhileOpen + (IF handle = "Connected" THEN 1 ELSE 0)
    /\ RaiseInit(r)
    /\ UNCHANGED << globalVars, mainVars, payload, current_agent, streamVars, listCalls,
                    agentsConstructed, exitCalls, firstTime >>

\* line 33: tools = stdio_mcp_client.list_tools_sync() returns
ListToolsOk(r) ==
    /\ Scheduled(r)
    /\ pc[r] = "list"
    /\ listCalls' = listCalls + 1
    /\ pc' = [pc EXCEPT ![r] = "construct"]
    /\ running' = Hold(r, "construct")
    /\ UNCHANGED << globalVars, mainVars, payload, current_agent, streamVars,
                    connectCalls, connectsWhileOpen, agentsConstructed, exitCalls,
                    failedAttempts, firstTime, awaitedFail >>

\* line 33: list_tools_sync() raises
ListToolsFail(r) ==
    /\ Scheduled(r)
    /\ pc[r] = "list"
    /\ listCalls' = listCalls + 1
    /\ RaiseInit(r)
    /\ UNCHANGED << globalVars, mainVars, payload, current_agent, streamVars,
                    connectCalls, connectsWhileOpen, agentsConstructed, exitCalls,
                    firstTime >>

\* lines 36-41 and 47: agent = Agent(...); return agent; current_agent = ...
ConstructAgent(r) ==
    /\ Scheduled(r)
    /\ pc[r] = "construct"
    /\ agentsConstructed' = agentsConstructed + 1
    /\ agent' = agentsConstructed + 1
    /\ current_agent' = [current_agent EXCEPT ![r] = agentsConstructed + 1]
    /\ pc' = [pc EXCEPT ![r] = "prompt"]
    /\ running' = Hold(r, "prompt")
    /\ UNCHANGED << mcp_context_manager, handle, mainVars, payload, streamVars,
                    connectCalls, connectsWhileOpen, listCalls, exitCalls,
                    failedAttempts, firstTime, awaitedFail >>

\* lines 50-57: user_prompt = payload.get(...); agent_stream = stream_async(user_prompt);
\* the async for suspends on the first unit
StartStream(r) ==
    /\ Scheduled(r)
    /\ pc[r] = "prompt"
    /\ user_prompt' = [user_prompt EXCEPT ![r] = Get(payload[r], "prompt", FALLBACK_PROMPT)]
    /\ streamArg' = [streamArg EXCEPT ![r] = user_prompt'[r]]
    /\ genCalls' = [genCalls EXCEPT ![r] = @ + 1]
    /\ pc' = [pc EXCEPT ![r] = "stream"]
    /\ running' = Hold(r, "stream")
    /\ UNCHANGED << globalVars, mainVars, payload, current_agent, produced, out,
                    counterVars, firstTime, awaitedFail >>

\* lines 57-59: the stream produces unit u; it is yielded when it has an "event" field
StreamUnit(r, u, limit) ==
    /\ Scheduled(r)
    /\ pc[r] = "stream"
    /\ Len(produced[r]) < limit
    /\ produced' = [produced EXCEPT ![r] = Append(@, u)]
    /\ out' = [out EXCEPT ![r] = IF HasEvent(u) THEN Append(@, u) ELSE @]
    /\ running' = Hold(r, "stream")
    /\ UNCHANGED << globalVars, mainVars, pc, payload, current_agent, user_prompt,
                    streamArg, genCalls, counterVars, firstTime, awaitedFail >>

\* variant: an end-of-stream marker is yielded before invoke returns
StreamEnd_marker(r) ==
    /\ Scheduled(r)
    /\ pc[r] = "stream"
    /\ pc' = [pc EXCEPT ![r] = "done"]
    /\ running' = Hold(r, "done")
    /\ out' = [out EXCEPT ![r] = Append(@, [event |-> "end"])]
    /\ UNCHANGED << globalVars, mainVars, payload, current_agent, user_prompt,
                    streamArg, genCalls, produced, counterVars, firstTime, awaitedFail >>

\* line 57: the stream is exhausted, invoke returns
StreamEnd(r) ==
    /\ Scheduled(r)
    /\ pc[r] = "stream"
    /\ pc' = [pc EXCEPT ![r] = "done"]
    /\ running' = Hold(r, "done")
    /\ UNCHANGED << globalVars, mainVars, payload, current_agent, streamVars,
                    counterVars, firstTime, awaitedFail >>

\* variant: the failure also drops the shared agent
StreamFail_resetsAgent(r) ==
    /\ Scheduled(r)
    /\ pc[r] = "stream"
    /\ pc' = [pc EXCEPT ![r] = "gen_failed"]
    /\ running' = Hold(r, "gen_failed")
    /\ agent' = None
    /\ UNCHANGED << mcp_context_manager, handle, mainVars, payload, current_agent,
                    streamVars, counterVars, firstTime, awaitedFail >>

\* line 57: the stream raises, the exception leaves invoke
StreamFail(r) ==
    /\ Scheduled(r)
    /\ pc[r] = "stream"
    /\ pc' = [pc EXCEPT ![r] = "gen_failed"]
    /\ running' = Hold(r, "gen_failed")
    /\ UNCHANGED << globalVars, mainVars, payload, current_agent, streamVars,
                    counterVars, firstTime, awaitedFail >>

\* variant: the abandoned request keeps the loop, as if it held a lock
Abandon_holdsLoop(r) ==
    /\ Scheduled(r) /\ running = 0
    /\ pc[r] = "stream"
    /\ pc' = [pc EXCEPT ![r] = "abandoned"]
    /\ running' = r
    /\ UNCHANGED << globalVars, mainVars, payload, current_agent, streamVars,
                    counterVars, firstTime, awaitedFail >>

\* the caller abandons the request: the suspended generator is closed
Abandon(r) ==
    /\ Scheduled(r) /\ running = 0
    /\ pc[r] = "stream"
    /\ pc' = [pc EXCEPT ![r] = "abandoned"]
    /\ running' = Hold(r, "abandoned")
    /\ UNCHANGED << globalVars, mainVars, payload, current_agent, streamVars,
                    counterVars, firstTime, awaitedFail >>

\* ------------------------------------------------------------ __main__
\* line 63: app.run() returns
AppRunReturns ==
    /\ phase = "serving" /\ running = 0
    /\ phase' = "finally"
    /\ runOutcome' = "returned"
    /\ UNCHANGED << globalVars, running, hookRuns, pc, payload, current_agent,
                    streamVars, counterVars, firstTime, awaitedFail >>

\* line 63: app.run() ends with an unhandled exception
AppRunRaises ==
    /\ phase = "serving" /\ running = 0
    /\ phase' = "finally"
    /\ runOutcome' = "raised"
    /\ UNCHANGED << globalVars, running, hookRuns, pc, payload, current_agent,
                    streamVars, counterVars, firstTime, awaitedFail >>

\* variant: the connection is released only when an agent was stored
CleanUp_ifAgent ==
    /\ hookRuns' = hookRuns + 1
    /\ IF agent /= None
         THEN /\ exitCalls' = exitCalls + 1
              /\ handle' = "Disconnected"
         ELSE UNCHANGED << exitCalls, handle >>
    /\ UNCHANGED << agent, mcp_context_manager, running, runOutcome, pc, payload,
                    current_agent, streamVars, connectCalls, connectsWhileOpen,
                    listCalls, agentsConstructed, failedAttempts, firstTime,
                    awaitedFail >>

\* lines 64-67: the body of the finally block
CleanUp ==
    /\ hookRuns' = hookRuns + 1
    /\ IF mcp_context_manager /= None
         THEN /\ exitCalls' = exitCalls + 1
              /\ handle' = "Disconnected"
         ELSE UNCHANGED << exitCalls, handle >>
    /\ UNCHANGED << agent, mcp_context_manager, running, runOutcome, pc, payload,
                    current_agent, streamVars, connectCalls, connectsWhileOpen,
                    listCalls, agentsConstructed, failedAttempts, firstTime,
                    awaitedFail >>

\* lines 64-67: the finally block runs as the process leaves app.run
ShutdownHook ==
    /\ phase = "finally"
    /\ phase' = "exited"
    /\ CleanUp

Next ==
    \/ \E r \in Requests, p \in PromptPayloads : Arrive(r, p)
    \/ \E r \in Requests : InitReuse(r)
    \/ \E r \in Requests : InitBegin(r)
    \/ \E r \in Requests : ConnectOk(r)
    \/ \E r \in Requests : ConnectFail(r)
    \/ \E r \in Requests : ListToolsOk(r)
    \/ \E r \in Requests : ListToolsFail(r)
    \/ \E r \in Requests : ConstructAgent(r)
    \/ \E r \in Requests : StartStream(r)
    \/ \E r \in Requests, u \in SomeUnits : StreamUnit(r, u, MaxGenLen)
    \/ \E r \in Requests : StreamEnd(r)
    \/ \E r \in Requests : StreamFail(r)
    \/ \E r \in Requests : Abandon(r)
    \/ AppRunReturns
    \/ AppRunRaises
    \/ ShutdownHook

Spec == Init /\ [][Next]_vars

\* the synchronous code of request r, from its start to its first suspension
SyncStep(r) ==
    \/ InitReuse(r) \/ InitBegin(r)
    \/ ConnectOk(r) \/ ConnectFail(r)
    \/ ListToolsOk(r) \/ ListToolsFail(r)
    \/ ConstructAgent(r) \/ StartStream(r)

\* request r resumed at the async for: a unit, the end of the stream or a failure
StreamStep(r) ==
    \/ \E u \in SomeUnits : StreamUnit(r, u, MaxGenLen)
    \/ StreamEnd(r)
    \/ StreamFail(r)

\* the event loop runs every request that is ready; streams are finite
FairSpec ==
    /\ Spec
    /\ WF_vars(\E r \in Requests : SyncStep(r))
    /\ \A r \in Requests : WF_vars(StreamStep(r))

\* one request followed through invoke, over every payload and every unit
NextStream ==
    \/ \E p \in Payloads : Arrive(1, p)
    \/ InitBegin(1)
    \/ ConnectOk(1)
    \/ ConnectFail(1)
    \/ ListToolsOk(1)
    \/ ListToolsFail(1)
    \/ ConstructAgent(1)
    \/ StartStream(1)
    \/ \E u \in Units : StreamUnit(1, u, StreamLen)
    \/ StreamEnd(1)
    \/ StreamFail(1)
    \/ Abandon(1)
    \/ AppRunReturns
    \/ AppRunRaises
    \/ ShutdownHook

SpecStream == Init /\ [][NextStream]_vars

\* the finally block executed once more after it has run
ShutdownHookAgain ==
    /\ phase = "exited"
    /\ hookRuns < MaxHookRuns
    /\ UNCHANGED phase
    /\ CleanUp

NextRerun == Next \/ ShutdownHookAgain

SpecRerun == Init /\ [][NextRerun]_vars

\* ================================================================ claims
PastInit == {"prompt", "stream", "done", "gen_failed", "abandoned"}
Streaming == {"stream", "done", "gen_failed", "abandoned"}
EmptyPayload == [k \in {} |-> ""]

\* C1: while no construction attempt has failed, __enter__, list_tools_sync
\* and Agent(...) are each executed at most once, and every request that has
\* left initialize_agent holds the one stored agent, built by exactly one
\* connect, one list-tools call and one construction.
C1_SingleConstruction ==
    failedAttempts = 0 =>
        /\ connectCalls <= 1 /\ listCalls <= 1 /\ agentsConstructed <= 1
        /\ \A r \in Requests : pc[r] \in PastInit =>
               /\ connectCalls = 1 /\ listCalls = 1 /\ agentsConstructed = 1
               /\ agent /= None /\ current_agent[r] = agent

\* every request called invoke before any agent existed, and all have obtained it
C1_Witness ==
    /\ failedAttempts = 0
    /\ \A r \in Requests : firstTime[r] /\ pc[r] \in Streaming

\* C2: at most one request is inside the construction, and a request that
\* was waiting while an attempt failed receives that failure instead of
\* starting a construction of its own.
C2_WaitAndShare ==
    /\ Cardinality({r \in Requests : pc[r] \in InInit}) <= 1
    /\ \A r \in Requests : awaitedFail[r] => pc[r] \in {"pending", "init_failed"}

\* C3: at most one Agent is ever created and __enter__ is never called while
\* a connection opened earlier has not been released.
C3_AtMostOne ==
    /\ agentsConstructed <= 1
    /\ connectsWhileOpen = 0

\* C4: once an agent is stored no step calls __enter__ or list_tools_sync,
\* constructs an Agent or writes agent or mcp_context_manager, and only the
\* finally block changes the handle.
C4_IdempotentReuse ==
    [][agent /= None =>
          /\ agent' = agent
          /\ mcp_context_manager' = mcp_context_manager
          /\ connectCalls' = connectCalls
          /\ listCalls' = listCalls
          /\ agentsConstructed' = agentsConstructed
          /\ (hookRuns' = hookRuns => handle' = handle)]_vars

\* a request that called invoke after the agent was stored has finished
C4_Witness ==
    /\ agent /= None
    /\ \E r \in Requests : pc[r] = "done" /\ ~firstTime[r]

\* C5: a step in which a construction attempt raises starts and ends with
\* the agent slot empty.
C5_FailureStoresNothing ==
    [][failedAttempts' > failedAttempts => agent = None /\ agent' = None]_vars

\* an attempt failed at list_tools_sync after a successful connect
C5_Witness ==
    /\ \E r \in Requests : pc[r] = "init_failed"
    /\ listCalls > 0 /\ agentsConstructed = 0 /\ agent = None

\* C6: whatever attempts have failed before, a pending request that finds
\* the loop free and no agent stored can enter the construction again.
C6_RetryAllowed ==
    \A r \in Requests :
        (phase = "serving" /\ running = 0 /\ pc[r] = "pending" /\ agent = None)
            => ENABLED InitBegin(r)

\* a construction succeeded after an earlier attempt had failed
C6_Witness ==
    /\ failedAttempts > 0
    /\ agent /= None
    /\ \E r \in Requests : pc[r] = "done" /\ current_agent[r] = agent

C8_ShutdownReleases ==
    /\ (phase = "finally" => ENABLED ShutdownHook)
    /\ (phase = "exited" => hookRuns >= 1 /\ handle = "Disconnected")

\* app.run raised after a connect whose tool enumeration failed; the hook released it
C8_Witness ==
    /\ phase = "exited" /\ runOutcome = "raised"
    /\ agent = None /\ mcp_context_manager /= None
    /\ exitCalls = 1 /\ handle = "Disconnected"

IsEventUnit(u) == u \in { [event |-> "a"], [event |-> "b"] }

\* C9: what a request has relayed is the subsequence of the produced units
\* that carry an "event" field, in order.
C9_EventFiltering ==
    \A r \in Requests : out[r] = SelectSeq(produced[r], IsEventUnit)

\* the stream [{x}, {event a}, {event b}, {y}] was relayed as [{event a}, {event b}]
C9_Witness ==
    /\ pc[1] = "done"
    /\ produced[1] = << [x |-> "1"], [event |-> "a"], [event |-> "b"], [y |-> "2"] >>
    /\ out[1] = << [event |-> "a"], [event |-> "b"] >>

\* C10: stream_async is called at most once per request, exactly once when
\* the request has reached the stream, with the payload's prompt when it has
\* one and with the fallback string otherwise.
C10_FallbackPrompt ==
    \A r \in Requests :
        /\ genCalls[r] = (IF pc[r] \in Streaming THEN 1 ELSE 0)
        /\ pc[r] \in Streaming =>
              streamArg[r] = (IF payload[r] = EmptyPayload
                                THEN FALLBACK_PROMPT ELSE payload[r].prompt)

\* a request with payload {} has streamed with the fallback string
C10_Witness ==
    /\ pc[1] = "done" /\ payload[1] = EmptyPayload
    /\ genCalls[1] = 1 /\ streamArg[1] = FALLBACK_PROMPT /\ streamArg[1] /= ""

\* C11: every construction attempt that raised has ended its request in the
\* init_failed outcome, and such a request has called stream_async zero
\* times, has consumed no unit and has relayed no event.
C11_InitFailureAborts ==
    /\ failedAttempts = Cardinality({r \in Requests : pc[r] = "init_failed"})
    /\ \A r \in Requests : pc[r] = "init_failed" =>
          /\ genCalls[r] = 0 /\ streamArg[r] = NoPrompt
          /\ produced[r] = << >> /\ out[r] = << >>
          /\ current_agent[r] = None

\* one request failed at tool enumeration while another one streamed an event
C11_Witness ==
    \E r, q \in Requests :
        /\ pc[r] = "init_failed" /\ listCalls > 0 /\ out[r] = << >>
        /\ pc[q] = "done" /\ out[q] /= << >>

\* C12: the step in which the stream of a request raises keeps what that
\* request has relayed (the filtered units produced so far), leaves agent,
\* mcp_context_manager and the handle as they are and touches no other
\* request; whatever has failed, a request suspended in its stream can
\* still run to the end of it and a pending request can still get the agent.
C12_StreamFailureIsolated ==
    /\ [][\A r \in Requests : (pc[r] = "stream" /\ pc'[r] = "gen_failed") =>
              /\ out' = out /\ produced' = produced
              /\ out[r] = SelectSeq(produced[r], IsEventUnit)
              /\ agent' = agent /\ agent /= None
              /\ mcp_context_manager' = mcp_context_manager
              /\ handle' = handle
              /\ running' = 0
              /\ \A q \in Requests \ {r} :
                    pc'[q] = pc[q] /\ current_agent'[q] = current_agent[q]]_vars
    /\ [](\A q \in Requests : (phase = "serving" /\ running = 0) =>
              /\ (pc[q] = "stream" => current_agent[q] = agent /\ ENABLED StreamEnd(q))
              /\ (pc[q] = "pending" /\ agent /= None => ENABLED InitReuse(q)))

\* one request failed after relaying an event; another, which called invoke
\* after the agent was stored, streamed to the end with the same agent
C12_Witness ==
    \E r, q \in Requests :
        /\ pc[r] = "gen_failed" /\ out[r] /= << >>
        /\ pc[q] = "done" /\ ~firstTime[q] /\ out[q] /= << >>
        /\ current_agent[q] = agent /\ current_agent[r] = agent

\* C13: a Connected handle becomes Disconnected only in a run of the finally
\* block, and once the handle has been connected no step calls __enter__ on
\* it again.
C13_ConnectedUntilShutdown ==
    [][/\ (handle = "Connected" /\ handle' = "Disconnected" => hookRuns' > hookRuns)
       /\ (mcp_context_manager /= None => connectCalls' = connectCalls)]_vars

\* C14: the step that abandons a request relays nothing, an abandoned
\* request never consumes or relays a unit again and stays abandoned; and
\* whenever no request is inside synchronous code the loop is free, so a
\* pending request can enter initialize_agent and a streaming request can
\* reach the end of its stream.
C14_Cancellation ==
    /\ [][\A r \in Requests :
              /\ (pc'[r] = "abandoned" /\ pc[r] /= "abandoned") =>
                     (out' = out /\ agent' = agent /\ handle' = handle)
              /\ pc[r] = "abandoned" =>
                     (pc'[r] = "abandoned" /\ out'[r] = out[r]
                        /\ produced'[r] = produced[r])]_vars
    /\ [](\A q \in Requests :
              (phase = "serving" /\ \A t \in Requests : pc[t] \notin InInit \cup {"prompt"}) =>
                  /\ (pc[q] = "stream" => ENABLED StreamEnd(q))
                  /\ (pc[q] = "pending" => ENABLED InitReuse(q) \/ ENABLED InitBegin(q)))

\* one request was abandoned after relaying an event; another one, which
\* called invoke after the agent was stored, streamed to the end
C14_Witness ==
    \E r, q \in Requests :
        /\ pc[r] = "abandoned" /\ out[r] /= << >>
        /\ pc[q] = "done" /\ ~firstTime[q] /\ current_agent[q] = agent

\* C15: under fair scheduling, from some point on no request is suspended
\* in its stream any more (each one has left it, at the latest when the
\* stream was exhausted) unless the process has left app.run; a request
\* becomes done only from its stream, the step that ends the stream relays
\* nothing, and a finished request never relays or consumes again.
C15_StreamTerminates ==
    /\ <>[](phase /= "serving" \/ \A r \in Requests : pc[r] /= "stream")
    /\ [][\A r \in Requests :
              /\ (pc'[r] = "done" /\ pc[r] /= "done") =>
                     (pc[r] = "stream" /\ out' = out /\ produced' = produced)
              /\ pc[r] = "done" =>
                     (pc'[r] = "done" /\ out'[r] = out[r]
                        /\ produced'[r] = produced[r])]_vars

\* every request has streamed to the end; one of them relayed an event
C15_Witness ==
    /\ phase = "serving"
    /\ \A r \in Requests : pc[r] = "done" /\ Len(produced[r]) = MaxGenLen
    /\ \E r \in Requests : out[r] /= << >>

\* C16: every call of __enter__ belongs to a different request (one that is
\* past the connect inside the construction, has failed, or has constructed
\* the agent), no request calls list_tools_sync more than once, and every
\* failed attempt has ended its request.
C16_NoInternalRetry ==
    /\ connectCalls = Cardinality({r \in Requests :
                           pc[r] \in {"list", "construct", "init_failed"}})
                       + agentsConstructed
    /\ listCalls <= connectCalls
    /\ failedAttempts = Cardinality({r \in Requests : pc[r] = "init_failed"})
    /\ \A r \in Requests : pc[r] = "init_failed" => ~ENABLED SyncStep(r)

\* a request failed and ended; a later request made the second attempt, which succeeded
C16_Witness ==
    /\ failedAttempts = 1 /\ connectCalls = 2 /\ agent /= None
    /\ \E r, q \in Requests : pc[r] = "init_failed" /\ pc[q] = "done"

\* C17: a stored agent implies that mcp_context_manager is set and that
\* __enter__ and list_tools_sync have returned, and, until the finally block
\* has run, that the handle is Connected.
C17_AgentImpliesConnection ==
    agent /= None =>
        /\ mcp_context_manager /= None
        /\ connectCalls >= 1 /\ listCalls >= 1 /\ agentsConstructed >= 1
        /\ (phase /= "exited" => handle = "Connected")

\* an agent is stored and in use while the process serves
C17_Witness ==
    /\ agent /= None /\ mcp_context_manager /= None
    /\ phase = "serving" /\ handle = "Connected"
    /\ \E r \in Requests : pc[r] = "stream" /\ current_agent[r] = agent

\* the converse of C17 is not an invariant: connected, nothing stored
C17_ConverseFails ==
    /\ mcp_context_manager /= None /\ handle = "Connected"
    /\ agent = None
    /\ \A r \in Requests : pc[r] \notin InInit

\* C18: a step that calls stream_async, consumes a unit or relays an event
\* is taken inside app.run with the handle Connected and on the stored
\* agent; once the finally block has run no request moves, and the block
\* leaves the agent slot as it is.
C18_NoUseAfterRelease ==
    [][/\ \A r \in Requests :
             (genCalls'[r] /= genCalls[r] \/ produced'[r] /= produced[r]
                \/ out'[r] /= out[r]) =>
                 /\ phase = "serving" /\ handle = "Connected"
                 /\ agent /= None /\ current_agent[r] = agent
       /\ (phase = "exited" => pc' = pc /\ out' = out /\ genCalls' = genCalls)
       /\ (hookRuns' /= hookRuns => agent' = agent)]_vars

\* the handle was released while a request was suspended in its stream; the agent is still stored
C18_Witness ==
    /\ phase = "exited" /\ handle = "Disconnected" /\ exitCalls = 1
    /\ agent /= None
    /\ \E r \in Requests : pc[r] = "stream" /\ current_agent[r] = agent
====
